---- MODULE Spec2Model ----
(***************************************************************************)
(* Model of src/main.py of LLM-Reviewer: the change-record filter of       *)
(* get_pr_diff, the greedy chunker chunk_files, the per-chunk analysis     *)
(* process_chunk, the reduction synthesize_reviews and the orchestration   *)
(* in main.                                                                *)
(*                                                                         *)
(* Strings whose characters the code inspects (file names) are sequences   *)
(* of one-character strings.  The tokenizer is an external collaborator:   *)
(* a record carries in `tokens` the length the tokenizer measures for      *)
(* "<filename>\n<patch>".                                                  *)
(***************************************************************************)
EXTENDS Integers, Sequences, FiniteSets, TLC

VARIABLES
    pc,             \* position of main (or of the function under test)
    outcome,        \* how the run ended ("none" while it is running)
    pr_number,      \* "unset", "None" or a number
    raw,            \* diff_response.json() of get_pr_diff
    fetch_failed,   \* get_pr_diff went through its except branch
    files,          \* value returned by get_pr_diff / input of chunk_files
    chunks,         \* value returned by chunk_files
    tasks,          \* per chunk: the state of its process_chunk task
    chunk_reviews,  \* list returned by asyncio.gather
    valid_reviews,  \* main's filtered list
    final_report,   \* value returned by synthesize_reviews
    requests,       \* requests issued to the model provider, in order
    comments,       \* comments created on the pull request, in order
    attempts,       \* bodies handed to create_comment, in order
    log,            \* set of log records written
    env,            \* GITHUB_REF and the event payload read by main
    call            \* arguments and collaborators of the function under test

vars == <<pc, outcome, pr_number, raw, fetch_failed, files, chunks, tasks,
          chunk_reviews, valid_reviews, final_report, requests, comments,
          attempts, log, env, call>>

-----------------------------------------------------------------------------
(* Program constants.                                                      *)

MAX_CHUNK_TOKENS == 6000
MAX_SUMMARY_TOKENS == 3000
MIN_FILE_TOKENS == 200

-----------------------------------------------------------------------------
(* Bounds of the model.                                                    *)

MaxRaw == 3         \* longest raw change-record list given to the filter
MaxFiles == 4       \* longest list given to chunk_files on its own
MaxRunFiles == 3    \* longest raw list fetched in a run of main
MaxReviews == 3     \* longest list given to synthesize_reviews on its own

-----------------------------------------------------------------------------
(* Strings.                                                                *)

\* The characters used in file names, in code-point order.
Alphabet == <<".", "/", "a", "b", "g", "i", "j", "k", "l", "m", "n", "p",
              "r", "x", "y", "z">>

Ord(c) == CHOOSE i \in 1..Len(Alphabet) : Alphabet[i] = c

\* s < t for Python strings: lexicographic by code point.
RECURSIVE StrLess(_, _)
StrLess(s, t) ==
    IF t = <<>> THEN FALSE
    ELSE IF s = <<>> THEN TRUE
    ELSE IF Head(s) # Head(t) THEN Ord(Head(s)) < Ord(Head(t))
    ELSE StrLess(Tail(s), Tail(t))

\* s.endswith(suffix)
EndsWith(s, suffix) ==
    /\ Len(suffix) <= Len(s)
    /\ SubSeq(s, Len(s) - Len(suffix) + 1, Len(s)) = suffix

\* s.endswith(tuple of suffixes)
EndsWithAny(s, suffixes) == \E suffix \in suffixes : EndsWith(s, suffix)

\* 1 + s.rfind(c): the position of the last c in s, 0 when there is none.
RFind(s, c) ==
    IF \E i \in 1..Len(s) : s[i] = c
    THEN CHOOSE i \in 1..Len(s) : s[i] = c /\ \A j \in (i+1)..Len(s) : s[j] # c
    ELSE 0

\* s.rstrip(c)
RECURSIVE RStrip(_, _)
RStrip(s, c) ==
    IF s # <<>> /\ s[Len(s)] = c THEN RStrip(SubSeq(s, 1, Len(s) - 1), c) ELSE s

\* os.path.dirname (posixpath): the part before the last "/", with trailing
\* slashes removed unless it consists of slashes only.
DirName(p) ==
    LET head == SubSeq(p, 1, RFind(p, "/"))
    IN  IF head # <<>> /\ \E i \in 1..Len(head) : head[i] # "/"
        THEN RStrip(head, "/")
        ELSE head

\* The file names of the model.
F_a_n_py  == <<"a", "/", "n", ".", "p", "y">>
F_b_m_py  == <<"b", "/", "m", ".", "p", "y">>
F_r_py    == <<"r", ".", "p", "y">>
F_b_i_png == <<"b", "/", "i", ".", "p", "n", "g">>
F_a_k_zip == <<"a", "/", "k", ".", "z", "i", "p">>
F_a_xpng  == <<"a", "/", "x", "p", "n", "g">>

-----------------------------------------------------------------------------
(* Change records.  A record of the hosting service's response is either   *)
(* null or a dict; `keys` are the keys the dict has.  A key that is absent *)
(* has the placeholder value of its field.  "status" stands for the keys   *)
(* status, changes, additions and deletions, which the code copies         *)
(* together.                                                               *)

NullRecord ==
    [null |-> TRUE, keys |-> {}, filename |-> <<>>, patch |-> "", tokens |-> 0]

Dict(keys, filename, patch, tokens) ==
    [null |-> FALSE, keys |-> keys, filename |-> filename, patch |-> patch,
     tokens |-> tokens]

AllKeys == {"filename", "patch", "status"}

\* A well-formed record with patch text.
Unit(filename, tokens) == Dict(AllKeys, filename, "diff", tokens)

\* Python truthiness of a patch value ("None" stands for null).
Truthy(patch) == patch \notin {"", "None"}

\* All sequences over S of length at most n.
SeqsUpTo(S, n) == UNION {[1..k -> S] : k \in 0..n}

-----------------------------------------------------------------------------
(* get_pr_diff.                                                            *)

\* The suffixes of the tuple given to endswith in the record filter.
SkippedSuffixes == {<<"p", "n", "g">>, <<"j", "p", "g">>, <<"j", "a", "r">>}

\* The extensions of the pattern of is_binary_file.
BinaryExtensions ==
    {<<"b", "i", "n">>, <<"p", "n", "g">>, <<"j", "p", "g">>, <<"j", "a", "r">>,
     <<"z", "i", "p">>, <<"e", "x", "e">>, <<"d", "l", "l">>}

\* re.search(r'\.(bin|png|jpg|jar|zip|exe|dll)$', filename)
is_binary_file(filename) ==
    \E ext \in BinaryExtensions : EndsWith(filename, <<".">> \o ext)

\* The condition of the loop body: the record is appended to files.
RecordKept(file) ==
    /\ ~EndsWithAny(file.filename, SkippedSuffixes)
    /\ Truthy(file.patch)

\* The loop body raises (TypeError on a null record, KeyError on an absent
\* key); `and` does not read file['patch'] when the suffix test fails.
RecordRaises(file) ==
    \/ file.null
    \/ "filename" \notin file.keys
    \/ /\ ~EndsWithAny(file.filename, SkippedSuffixes)
       /\ "patch" \notin file.keys
    \/ /\ RecordKept(file)
       /\ "status" \notin file.keys

\* The dict the loop body appends.
CopyRecord(file) == Dict(AllKeys, file.filename, file.patch, file.tokens)

\* The loop over diff_response.json(): the list built, or the exception.
FilterRecords(response) ==
    IF \E i \in 1..Len(response) : RecordRaises(response[i])
    THEN [raised |-> TRUE, files |-> <<>>]
    ELSE LET kept == SelectSeq(response, RecordKept)
         IN  [raised |-> FALSE,
              files |-> [i \in 1..Len(kept) |-> CopyRecord(kept[i])]]

\* Answers of the hosting service to login, repository, pull_request, _get.
Services == {"ok", "auth_failed", "repo_not_found", "pr_not_found",
             "network_error"}

\* Python truthiness of a PR number ("None" or a decimal numeral).
TruthyNumber(n) == n \notin {"None", "0", "unset"}

\* The exception classes the body can raise: ValueError (the explicit
\* raises and the unpacking of repo_name.split('/')), TypeError and KeyError
\* (the record loop), the hosting library's errors.
ExceptionClasses == {"ValueError", "TypeError", "KeyError", "GitHubError",
                     "ConnectionError"}

\* Variant of Caught: the handler names ValueError only.
Caught_ValueErrorOnly(exc) == exc = "ValueError"

\* `except Exception as e`: each of the classes derives from Exception.
Caught(exc) == exc \in ExceptionClasses

\* repo_name.split('/') gives two parts.
HasOneSlash(repo_name) == repo_name = "owner/repo"

\* The exception of the record loop: TypeError on a null record, KeyError on
\* an absent key, for the first record that raises.
RecordException(response) ==
    LET i == CHOOSE k \in 1..Len(response) :
                 /\ RecordRaises(response[k])
                 /\ \A m \in 1..(k - 1) : ~RecordRaises(response[m])
    IN  IF response[i].null THEN "TypeError" ELSE "KeyError"

\* The body of the try block: the exception it raises, or "none".
BodyException(github_token, repo_name, number, service, response) ==
    IF \/ github_token = "None"
       \/ repo_name = "None"
       \/ ~TruthyNumber(number)
    THEN "ValueError"
    ELSE IF ~HasOneSlash(repo_name) THEN "ValueError"
    ELSE IF service = "auth_failed" THEN "GitHubError"
    ELSE IF service \in {"repo_not_found", "pr_not_found"} THEN "ValueError"
    ELSE IF service = "network_error" THEN "ConnectionError"
    ELSE IF FilterRecords(response).raised THEN RecordException(response)
    ELSE "none"

\* get_pr_diff: every exception of the body ends in `return []`; `raised`
\* says that the except branch ran, `escaped` that an exception left the
\* function.
get_pr_diff(github_token, repo_name, number, service, response) ==
    LET exc == BodyException(github_token, repo_name, number, service, response)
    IN  IF exc = "none"
        THEN [raised |-> FALSE, escaped |-> FALSE,
              files |-> FilterRecords(response).files]
        ELSE [raised |-> Caught(exc), escaped |-> ~Caught(exc), files |-> <<>>]

-----------------------------------------------------------------------------
(* chunk_files.                                                            *)

\* The filter of the list comprehension: `f and f.get('filename')`.
HasFilename(f) == ~f.null /\ f.keys # {} /\ "filename" \in f.keys /\ f.filename # <<>>

\* The sort key.
SortKey(f) == DirName(f.filename)

\* sorted(..., key=...): stable, so an element goes after the elements whose
\* key is not greater than its own.
\* Variant of InsertSorted: an element goes before the elements whose key
\* equals its own.
RECURSIVE InsertSorted_BeforeEqual(_, _)
InsertSorted_BeforeEqual(sorted, f) ==
    IF sorted = <<>> THEN <<f>>
    ELSE IF ~StrLess(SortKey(Head(sorted)), SortKey(f))
         THEN <<f>> \o sorted
         ELSE <<Head(sorted)>> \o InsertSorted_BeforeEqual(Tail(sorted), f)

RECURSIVE InsertSorted(_, _)
InsertSorted(sorted, f) ==
    IF sorted = <<>> THEN <<f>>
    ELSE IF StrLess(SortKey(f), SortKey(Head(sorted)))
         THEN <<f>> \o sorted
         ELSE <<Head(sorted)>> \o InsertSorted(Tail(sorted), f)

RECURSIVE SortedByDir(_)
SortedByDir(fs) ==
    IF fs = <<>> THEN <<>>
    ELSE InsertSorted(SortedByDir(SubSeq(fs, 1, Len(fs) - 1)), fs[Len(fs)])

\* Building `content` raises KeyError when the record has no patch.
MeasureRaises(file) == "patch" \notin file.keys

\* len(tokenizer.encode(content))
file_tokens(file) == file.tokens

\* Variant of Eligible: the comparison includes the threshold.
Eligible_Inclusive(n) == n >= MIN_FILE_TOKENS

\* `if file_tokens > MIN_FILE_TOKENS`
Eligible(n) == n > MIN_FILE_TOKENS

\* Variant of ShouldClose: the running total is left out of the test.
ShouldClose_UnitOnly(current_tokens, n) == n > MAX_CHUNK_TOKENS

\* Variant of ShouldClose: a total equal to the limit closes the chunk.
ShouldClose_AtLimit(current_tokens, n) == current_tokens + n >= MAX_CHUNK_TOKENS

\* `if current_tokens + file_tokens > MAX_CHUNK_TOKENS`
ShouldClose(current_tokens, n) == current_tokens + n > MAX_CHUNK_TOKENS

\* One iteration of the loop over sorted_files.
PackStep(st, file) ==
    LET n == file_tokens(file)
        closed == IF ShouldClose(st.current_tokens, n)
                  THEN [chunks |-> Append(st.chunks, st.current_chunk),
                        current_chunk |-> <<>>, current_tokens |-> 0]
                  ELSE st
    IN  IF Eligible(n)
        THEN [chunks |-> closed.chunks,
              current_chunk |-> Append(closed.current_chunk, file),
              current_tokens |-> closed.current_tokens + n]
        ELSE st

RECURSIVE Pack(_, _)
Pack(st, fs) == IF fs = <<>> THEN st ELSE Pack(PackStep(st, Head(fs)), Tail(fs))

\* `if current_chunk: chunks.append(current_chunk)`
CloseLast(st) ==
    IF st.current_chunk # <<>> THEN Append(st.chunks, st.current_chunk)
    ELSE st.chunks

\* What tokenizer.encode does: it measures, or it raises.
Tokenizers == {"ok", "raises"}

\* The exception of the loop over sorted_files, or "none": KeyError when a
\* record has no patch, the tokenizer's error at the first record measured.
ChunkException(sorted_files, tokenizer) ==
    IF sorted_files = <<>> THEN "none"
    ELSE IF MeasureRaises(sorted_files[1]) THEN "KeyError"
    ELSE IF tokenizer = "raises" THEN "ValueError"
    ELSE IF \E i \in 1..Len(sorted_files) : MeasureRaises(sorted_files[i])
         THEN "KeyError"
    ELSE "none"

\* Variant of ChunkCaught: the loop runs outside a try block.
ChunkCaught_Unguarded(exc) == FALSE

\* `except Exception as e` of chunk_files.
ChunkCaught(exc) == exc \in ExceptionClasses

\* chunk_files(files, tokenizer), files being None (is_none) or the list fs:
\* the list returned, and whether an exception left the function.
ChunkFilesResult(is_none, fs, tokenizer) ==
    IF is_none \/ fs = <<>> THEN [escaped |-> FALSE, chunks |-> <<>>]
    ELSE LET sorted_files == SortedByDir(SelectSeq(fs, HasFilename))
             exc == ChunkException(sorted_files, tokenizer)
         IN  IF exc = "none"
             THEN [escaped |-> FALSE,
                   chunks |-> CloseLast(Pack([chunks |-> <<>>,
                                              current_chunk |-> <<>>,
                                              current_tokens |-> 0],
                                             sorted_files))]
             ELSE [escaped |-> ~ChunkCaught(exc), chunks |-> <<>>]

\* chunk_files on a list, with a tokenizer that measures.
chunk_files(fs) == ChunkFilesResult(FALSE, fs, "ok").chunks

-----------------------------------------------------------------------------
(* The state before main has done anything.                                *)

NoReport == [kind |-> "unset", reviews |-> <<>>]

\* Nothing read from the environment yet; no function called on its own.
NoEnv == [ref |-> <<>>, event |-> "unread"]
NoCall == [function |-> "main"]

\* Everything but pc and the input of the function under test.
Fresh ==
    /\ outcome = "none"
    /\ pr_number = "unset"
    /\ fetch_failed = FALSE
    /\ chunks = <<>>
    /\ tasks = <<>>
    /\ chunk_reviews = <<>>
    /\ valid_reviews = <<>>
    /\ final_report = NoReport
    /\ requests = <<>>
    /\ comments = <<>>
    /\ attempts = <<>>
    /\ log = {}
    /\ env = NoEnv
    /\ call = NoCall

LogError(msg) == log \cup {[level |-> "error", msg |-> msg]}
LogWarning(msg) == log \cup {[level |-> "warning", msg |-> msg]}

-----------------------------------------------------------------------------
(* The record filter of get_pr_diff on its own: the hosting service        *)
(* answers, and the response is any list of records up to MaxRaw.          *)

RawFilenames == {F_a_n_py, F_b_i_png, F_a_k_zip, F_a_xpng}
PatchValues == {"", "None", "diff"}

RawRecords ==
    {NullRecord}
    \cup {Dict(AllKeys, f, p, 300) : f \in RawFilenames, p \in PatchValues}
    \cup {Dict({"patch", "status"}, <<>>, p, 300) : p \in PatchValues}
    \cup {Dict({"filename", "status"}, f, "", 300) : f \in RawFilenames}
    \cup {Dict({"filename", "patch"}, f, "diff", 300) : f \in RawFilenames}

NormalizeInit ==
    /\ pc = "filter_in"
    /\ raw \in SeqsUpTo(RawRecords, MaxRaw)
    /\ files = <<>>
    /\ Fresh

NormalizeCall ==
    /\ pc = "filter_in"
    /\ LET r == get_pr_diff("token", "owner/repo", "7", "ok", raw)
       IN  /\ files' = r.files
           /\ fetch_failed' = r.raised
           /\ log' = IF r.raised THEN LogError("Diff retrieval failed") ELSE log
    /\ pc' = "filter_out"
    /\ UNCHANGED <<env, call, outcome, pr_number, raw, chunks, tasks, chunk_reviews,
                   valid_reviews, final_report, requests, comments, attempts>>

SpecNormalize == NormalizeInit /\ [][NormalizeCall]_vars

-----------------------------------------------------------------------------
(* get_pr_diff on its own: any arguments, any answer of the hosting        *)
(* service, any response up to MaxRaw.                                     *)

Tokens == {"None", "token"}
RepoNames == {"None", "owner/repo", "repo"}
Numbers == {"None", "0", "7"}

FetchRecords ==
    {NullRecord,
     Dict(AllKeys, F_a_n_py, "diff", 300),
     Dict(AllKeys, F_b_i_png, "diff", 300),
     Dict({"filename", "status"}, F_a_n_py, "", 300)}

FetchInit ==
    /\ pc = "fetch_in"
    /\ raw \in SeqsUpTo(FetchRecords, MaxRaw)
    /\ files = <<>>
    /\ \E github_token \in Tokens, repo_name \in RepoNames, number \in Numbers,
          service \in Services :
         /\ call = [function |-> "get_pr_diff", github_token |-> github_token,
                    repo_name |-> repo_name, service |-> service]
         /\ pr_number = number
    /\ outcome = "none"
    /\ fetch_failed = FALSE
    /\ chunks = <<>>
    /\ tasks = <<>>
    /\ chunk_reviews = <<>>
    /\ valid_reviews = <<>>
    /\ final_report = NoReport
    /\ requests = <<>>
    /\ comments = <<>>
    /\ attempts = <<>>
    /\ log = {}
    /\ env = NoEnv

FetchCall ==
    /\ pc = "fetch_in"
    /\ LET r == get_pr_diff(call.github_token, call.repo_name, pr_number,
                            call.service, raw)
       IN  /\ files' = r.files
           /\ fetch_failed' = r.raised
           /\ outcome' = IF r.escaped THEN "FETCH_RAISED" ELSE "none"
           /\ log' = IF r.raised THEN LogError("Diff retrieval failed") ELSE log
    /\ pc' = "fetch_out"
    /\ UNCHANGED <<env, call, pr_number, raw, chunks, tasks, chunk_reviews,
                   valid_reviews, final_report, requests, comments, attempts>>

SpecFetch == FetchInit /\ [][FetchCall]_vars

-----------------------------------------------------------------------------
(* chunk_files on its own: any list of records up to MaxFiles, with any    *)
(* assignment of sizes.                                                    *)

ChunkFilenames == {F_a_n_py, F_b_m_py, F_r_py}
Sizes == {MIN_FILE_TOKENS, 3000, 3001, MAX_CHUNK_TOKENS + 1}

Units == {Unit(f, n) : f \in ChunkFilenames, n \in Sizes}

ChunkRecords ==
    Units \cup {NullRecord,
                Dict({"patch", "status"}, <<>>, "diff", 3000),
                Dict({"filename", "status"}, F_a_n_py, "", 3000)}

ChunkInit ==
    /\ pc = "chunk_in"
    /\ raw = <<>>
    /\ files \in SeqsUpTo(ChunkRecords, MaxFiles)
    /\ Fresh

ChunkCall ==
    /\ pc = "chunk_in"
    /\ chunks' = chunk_files(files)
    /\ pc' = "chunk_out"
    /\ UNCHANGED <<env, call, outcome, pr_number, raw, fetch_failed, files, tasks,
                   chunk_reviews, valid_reviews, final_report, requests,
                   comments, attempts, log>>

SpecChunk == ChunkInit /\ [][ChunkCall]_vars

-----------------------------------------------------------------------------
(* chunk_files with any first argument (None included) and any tokenizer.  *)

AnyRecords ==
    {NullRecord,
     Unit(F_a_n_py, 3000),
     Unit(F_b_m_py, MAX_CHUNK_TOKENS + 1),
     Dict({"filename", "status"}, F_a_n_py, "", 3000)}

ChunkAnyInit ==
    /\ pc = "chunk_in"
    /\ raw = <<>>
    /\ \E is_none \in BOOLEAN, tokenizer \in Tokenizers :
         /\ call = [function |-> "chunk_files", is_none |-> is_none,
                    tokenizer |-> tokenizer]
         /\ files \in IF is_none THEN {<<>>} ELSE SeqsUpTo(AnyRecords, MaxFiles)
    /\ outcome = "none"
    /\ pr_number = "unset"
    /\ fetch_failed = FALSE
    /\ chunks = <<>>
    /\ tasks = <<>>
    /\ chunk_reviews = <<>>
    /\ valid_reviews = <<>>
    /\ final_report = NoReport
    /\ requests = <<>>
    /\ comments = <<>>
    /\ attempts = <<>>
    /\ log = {}
    /\ env = NoEnv

ChunkAnyCall ==
    /\ pc = "chunk_in"
    /\ LET r == ChunkFilesResult(call.is_none, files, call.tokenizer)
       IN  /\ chunks' = r.chunks
           /\ outcome' = IF r.escaped THEN "CHUNK_RAISED" ELSE "none"
    /\ pc' = "chunk_out"
    /\ UNCHANGED <<env, call, pr_number, raw, fetch_failed, files, tasks,
                   chunk_reviews, valid_reviews, final_report, requests,
                   comments, attempts, log>>

SpecChunkAny == ChunkAnyInit /\ [][ChunkAnyCall]_vars

-----------------------------------------------------------------------------
(* process_chunk, synthesize_reviews and asyncio.gather.                   *)

\* What the model provider does with a request: it answers with text, with
\* whitespace only, with a message whose content is None, or the call raises
\* (provider error, network error, a response without choices).
Answers == {"text", "blank", "none", "raise"}

NoReview == [kind |-> "unset", chunk |-> 0]

\* file['patch'].split('\n'): the patch values of the model have one line.
PatchLines(patch) == IF patch = "" THEN <<"">> ELSE <<patch>>

\* The annotated lines of one file: its "File: ..." header, then the
\* non-empty patch lines (each behind its line number).
Annotated(file) ==
    <<"File">> \o SelectSeq(PatchLines(file.patch), LAMBDA line : line # "")

RenderedFiles(chunk) == [j \in 1..Len(chunk) |-> Annotated(chunk[j])]

\* Variant of FullDiffBlank: the validation is skipped.
FullDiffBlank_Never(chunk) == FALSE

\* `not full_diff.strip()`: the joined text has no non-blank line.
FullDiffBlank(chunk) ==
    \A j \in 1..Len(chunk) :
      \A k \in 1..Len(RenderedFiles(chunk)[j]) : RenderedFiles(chunk)[j][k] = ""

\* process_chunk for chunk i when the provider's answer is `answer`: whether
\* a request is issued, whether the coroutine raises, and the value returned.
process_chunk(chunk, i, answer) ==
    IF FullDiffBlank(chunk)
    THEN [requested |-> FALSE, raised |-> FALSE,
          result |-> [kind |-> "empty", chunk |-> i]]
    ELSE IF answer = "raise"
    THEN [requested |-> TRUE, raised |-> TRUE, result |-> NoReview]
    ELSE [requested |-> TRUE, raised |-> FALSE,
          result |-> [kind |-> answer, chunk |-> i]]

\* Variant of synthesize_reviews: the provider's exception is swallowed and
\* None is returned.
synthesize_reviews_Swallow(reviews, answer) ==
    [requested |-> TRUE, raised |-> FALSE,
     result |-> [kind |-> IF answer = "raise" THEN "none" ELSE answer,
                 reviews |-> reviews]]

\* synthesize_reviews: one request over the joined reviews.
synthesize_reviews(reviews, answer) ==
    IF answer = "raise"
    THEN [requested |-> TRUE, raised |-> TRUE, result |-> NoReport]
    ELSE [requested |-> TRUE, raised |-> FALSE,
          result |-> [kind |-> answer, reviews |-> reviews]]

\* Variant of gather: the results are collected in the reverse order.
gather_Reversed(ts) ==
    IF \E i \in 1..Len(ts) : ts[i].state = "raised"
    THEN [raised |-> TRUE, results |-> <<>>]
    ELSE [raised |-> FALSE,
          results |-> [i \in 1..Len(ts) |-> ts[Len(ts) + 1 - i].result]]

\* Variant of gather: a task's exception becomes a None result.
gather_Degrade(ts) ==
    [raised |-> FALSE,
     results |-> [i \in 1..Len(ts) |->
                    IF ts[i].state = "raised" THEN [kind |-> "none", chunk |-> i]
                    ELSE ts[i].result]]

\* `await asyncio.gather(*coros)` once every task has finished: the first
\* exception is raised to the awaiting caller, else the results in order.
gather(ts) ==
    IF \E i \in 1..Len(ts) : ts[i].state = "raised"
    THEN [raised |-> TRUE, results |-> <<>>]
    ELSE [raised |-> FALSE, results |-> [i \in 1..Len(ts) |-> ts[i].result]]

\* Variant of IsValidReview: the review is not stripped before the test.
IsValidReview_Unstripped(review) == review.kind \notin {"none", "empty"}

\* `review and review.strip()`
IsValidReview(review) == review.kind \notin {"none", "empty", "blank"}

-----------------------------------------------------------------------------
(* main.                                                                   *)

Envs == {"ok", "no_api_key", "no_github_token", "no_repository"}

\* GITHUB_REF split at "/".
Refs == {<<"refs", "pull", "7", "merge">>, <<"refs", "pull", "7", "head">>,
         <<"refs", "heads", "main">>, <<"refs", "heads", "pull-fix">>,
         <<"pull">>, <<"">>}

\* 'pull' in github_ref
HasPull(ref) == \E k \in 1..Len(ref) : ref[k] \in {"pull", "pull-fix"}

\* int(s) succeeds
IsNumeral(s) == s \in {"0", "7"}

\* GITHUB_EVENT_PATH: unset, a payload with pull_request.number, a payload
\* without pull_request, or a path that cannot be opened.
Events == {"no_path", "with_pr", "without_pr", "unreadable"}

\* The try block of main that determines pr_number.
ResolvePrNumber(ref, event) ==
    IF HasPull(ref)
    THEN IF Len(ref) < 3 \/ ~IsNumeral(ref[3])
         THEN [ended |-> "caught", number |-> "unset"]
         ELSE [ended |-> "ok", number |-> ref[3]]
    ELSE CASE event = "no_path"    -> [ended |-> "caught", number |-> "unset"]
           [] event = "unreadable" -> [ended |-> "uncaught", number |-> "unset"]
           [] event = "with_pr"    -> [ended |-> "ok", number |-> "7"]
           [] event = "without_pr" -> [ended |-> "ok", number |-> "None"]

RunFilenames == {F_a_n_py}

RunRecords ==
    {Unit(f, n) : f \in RunFilenames, n \in Sizes}
    \cup {Unit(F_b_m_py, 3000), Unit(F_b_i_png, 3000), NullRecord}

Notice == [kind |-> "notice", report |-> NoReport]
Report(r) == [kind |-> "report", report |-> r]

\* The publisher is an external collaborator: create_comment succeeds or the
\* calls leading to it raise.
Publishers == {"ok", "raise"}

RunInit ==
    /\ pc = "start"
    /\ raw = <<>>
    /\ files = <<>>
    /\ Fresh

\* Validation of the required environment variables.
Start ==
    /\ pc = "start"
    /\ \E required \in Envs :
         IF required = "ok"
         THEN /\ pc' = "resolve_pr"
              /\ UNCHANGED <<outcome, log>>
         ELSE /\ pc' = "done"
              /\ outcome' = "ENV_MISSING"
              /\ log' = LogError(required)
    /\ UNCHANGED <<env, call, pr_number, raw, fetch_failed, files, chunks, tasks,
                   chunk_reviews, valid_reviews, final_report, requests,
                   comments, attempts>>

ResolvePr ==
    /\ pc = "resolve_pr"
    /\ \E ref \in Refs, event \in Events :
         LET r == ResolvePrNumber(ref, event)
         IN  /\ env' = [ref |-> ref,
                        event |-> IF HasPull(ref) THEN "unread" ELSE event]
             /\ pr_number' = r.number
             /\ pc' = IF r.ended = "ok" THEN "fetch" ELSE "done"
             /\ outcome' = CASE r.ended = "ok" -> outcome
                             [] r.ended = "caught" -> "NO_PR_NUMBER"
                             [] r.ended = "uncaught" -> "EVENT_RAISED"
             /\ log' = IF r.ended = "caught"
                       THEN LogError("Failed to extract PR number")
                       ELSE log
    /\ UNCHANGED <<call, raw, fetch_failed, files, chunks, tasks, chunk_reviews,
                   valid_reviews, final_report, requests, comments, attempts>>

\* Variant of NoFiles: the test is never taken.
NoFiles_Never(fs) == FALSE

\* `if not files`
NoFiles(fs) == fs = <<>>

\* files = get_pr_diff(...) and the test `if not files`.
Fetch ==
    /\ pc = "fetch"
    /\ \E service \in Services, response \in SeqsUpTo(RunRecords, MaxRunFiles) :
         LET r == get_pr_diff("token", "owner/repo", pr_number, service, response)
             got == service = "ok" /\ TruthyNumber(pr_number)
         IN  /\ raw' = IF got THEN response ELSE <<>>
             /\ files' = r.files
             /\ fetch_failed' = r.raised
             /\ log' = (IF r.raised THEN LogError("Diff retrieval failed") ELSE log)
                       \cup (IF NoFiles(r.files)
                             THEN {[level |-> "warning", msg |-> "No files found in PR diff"]}
                             ELSE {})
             /\ pc' = IF NoFiles(r.files) THEN "publish_notice" ELSE "chunk"
    /\ UNCHANGED <<env, call, outcome, pr_number, chunks, tasks, chunk_reviews,
                   valid_reviews, final_report, requests, comments, attempts>>

\* The branch `if not files`: post the notice and return.
PublishNotice ==
    /\ pc = "publish_notice"
    /\ attempts' = Append(attempts, Notice)
    /\ \E publisher \in Publishers :
         IF publisher = "ok"
         THEN comments' = Append(comments, Notice) /\ outcome' = "NO_UNITS"
         ELSE UNCHANGED comments /\ outcome' = "PUBLISH_RAISED"
    /\ pc' = "done"
    /\ UNCHANGED <<env, call, pr_number, raw, fetch_failed, files, chunks, tasks,
                   chunk_reviews, valid_reviews, final_report, requests, log>>

\* chunks = chunk_files(files, tokenizer), the test `if not chunks`, and the
\* creation of one task per chunk by asyncio.gather.
Chunk ==
    /\ pc = "chunk"
    /\ chunks' = chunk_files(files)
    /\ IF chunks' = <<>>
       THEN /\ log' = LogWarning("No valid chunks created from files")
            /\ outcome' = "NO_CHUNKS"
            /\ pc' = "done"
            /\ UNCHANGED tasks
       ELSE /\ tasks' = [i \in 1..Len(chunks') |->
                           [state |-> "pending", result |-> NoReview]]
            /\ pc' = "gather"
            /\ UNCHANGED <<outcome, log>>
    /\ UNCHANGED <<env, call, pr_number, raw, fetch_failed, files, chunk_reviews,
                   valid_reviews, final_report, requests, comments, attempts>>

\* The event loop can run a step of some task: process_chunk has no
\* suspension point (the provider call is synchronous), so while a request is
\* in flight the loop's only thread is inside that call.
LoopFree == \A j \in 1..Len(tasks) : tasks[j].state # "in_flight"

\* The task of chunk i starts; the loop starts the tasks in the order of
\* their creation.  It runs up to its return (blank text) or into the
\* provider call.
ProcessChunk(i) ==
    /\ pc = "gather"
    /\ tasks[i].state = "pending"
    /\ LoopFree
    /\ \A j \in 1..(i - 1) : tasks[j].state # "pending"
    /\ LET r == process_chunk(chunks[i], i, "text")
       IN  IF r.requested
           THEN /\ tasks' = [tasks EXCEPT ![i].state = "in_flight"]
                /\ requests' = Append(requests, [kind |-> "analysis", chunk |-> i,
                                                 reviews |-> <<>>,
                                                 answer |-> "pending"])
                /\ UNCHANGED log
           ELSE /\ tasks' = [tasks EXCEPT ![i] =
                               [state |-> "done", result |-> r.result]]
                /\ log' = LogWarning("Empty diff chunk skipped")
                /\ UNCHANGED requests
    /\ UNCHANGED <<env, call, pc, outcome, pr_number, raw, fetch_failed, files, chunks,
                   chunk_reviews, valid_reviews, final_report, comments, attempts>>

\* The provider call of chunk i returns or raises, and the task finishes.
ReceiveAnswer(i) ==
    /\ pc = "gather"
    /\ tasks[i].state = "in_flight"
    /\ \E answer \in Answers :
         LET r == process_chunk(chunks[i], i, answer)
         IN  /\ tasks' = [tasks EXCEPT ![i] =
                            [state |-> IF r.raised THEN "raised" ELSE "done",
                             result |-> r.result]]
             /\ requests' = [k \in 1..Len(requests) |->
                               IF requests[k].kind = "analysis" /\ requests[k].chunk = i
                               THEN [requests[k] EXCEPT !.answer = answer]
                               ELSE requests[k]]
    /\ UNCHANGED <<env, call, pc, outcome, pr_number, raw, fetch_failed, files, chunks,
                   chunk_reviews, valid_reviews, final_report, comments, attempts,
                   log>>

\* Variant of Barrier: the awaiting caller resumes at the first task finished.
Barrier_FirstCompleted(ts) ==
    \E i \in 1..Len(ts) : ts[i].state \in {"done", "raised"}

\* asyncio.gather resumes its awaiting caller when every task has finished.
Barrier(ts) == \A i \in 1..Len(ts) : ts[i].state \in {"done", "raised"}

\* main resumes from `await asyncio.gather(...)`, filters the reviews and
\* tests `if not valid_reviews`.
GatherReturn ==
    /\ pc = "gather"
    /\ Barrier(tasks)
    /\ LET g == gather(tasks)
           valid == SelectSeq(g.results, IsValidReview)
       IN  IF g.raised
           THEN /\ outcome' = "ANALYSIS_RAISED"
                /\ pc' = "done"
                /\ UNCHANGED <<chunk_reviews, valid_reviews, log>>
           ELSE /\ chunk_reviews' = g.results
                /\ valid_reviews' = valid
                /\ IF valid = <<>>
                   THEN /\ log' = LogWarning("No valid reviews generated")
                        /\ outcome' = "NO_RESULTS"
                        /\ pc' = "done"
                   ELSE /\ pc' = "synthesize"
                        /\ UNCHANGED <<outcome, log>>
    /\ UNCHANGED <<env, call, pr_number, raw, fetch_failed, files, chunks, tasks,
                   final_report, requests, comments, attempts>>

\* final_report = await synthesize_reviews(valid_reviews, config)
Synthesize ==
    /\ pc = "synthesize"
    /\ \E answer \in Answers :
         LET r == synthesize_reviews(valid_reviews, answer)
         IN  /\ requests' = IF r.requested
                            THEN Append(requests, [kind |-> "synthesis", chunk |-> 0,
                                                   reviews |-> valid_reviews,
                                                   answer |-> answer])
                            ELSE requests
             /\ final_report' = r.result
             /\ IF r.raised
                THEN outcome' = "SYNTH_FAILED" /\ pc' = "done"
                ELSE UNCHANGED outcome /\ pc' = "publish_report"
    /\ UNCHANGED <<env, call, pr_number, raw, fetch_failed, files, chunks, tasks,
                   chunk_reviews, valid_reviews, comments, attempts, log>>

\* Post to GitHub.
PublishReport ==
    /\ pc = "publish_report"
    /\ attempts' = Append(attempts, Report(final_report))
    /\ \E publisher \in Publishers :
         IF publisher = "ok"
         THEN /\ comments' = Append(comments, Report(final_report))
              /\ outcome' = "REPORT_READY"
         ELSE UNCHANGED comments /\ outcome' = "PUBLISH_RAISED"
    /\ pc' = "done"
    /\ UNCHANGED <<env, call, pr_number, raw, fetch_failed, files, chunks, tasks,
                   chunk_reviews, valid_reviews, final_report, requests, log>>

Next ==
    \/ Start
    \/ ResolvePr
    \/ Fetch
    \/ PublishNotice
    \/ Chunk
    \/ \E i \in 1..Len(tasks) : ProcessChunk(i)
    \/ \E i \in 1..Len(tasks) : ReceiveAnswer(i)
    \/ GatherReturn
    \/ Synthesize
    \/ PublishReport

Spec == RunInit /\ [][Next]_vars

-----------------------------------------------------------------------------
(* synthesize_reviews on its own (as the test file calls it), next to the  *)
(* runs of main: any list of results up to MaxReviews.                     *)

ReviewLists ==
    UNION {[1..n -> {"text", "blank", "empty", "none"}] : n \in 0..MaxReviews}

SynthInit ==
    /\ pc = "synth_in"
    /\ raw = <<>>
    /\ files = <<>>
    /\ outcome = "none"
    /\ pr_number = "unset"
    /\ fetch_failed = FALSE
    /\ chunks = <<>>
    /\ tasks = <<>>
    /\ \E kinds \in ReviewLists :
         chunk_reviews = [i \in 1..Len(kinds) |-> [kind |-> kinds[i], chunk |-> i]]
    /\ valid_reviews = <<>>
    /\ final_report = NoReport
    /\ requests = <<>>
    /\ comments = <<>>
    /\ attempts = <<>>
    /\ log = {}
    /\ env = NoEnv
    /\ call = [function |-> "synthesize_reviews"]

SynthCall ==
    /\ pc = "synth_in"
    /\ \E answer \in Answers :
         LET r == synthesize_reviews(chunk_reviews, answer)
         IN  /\ requests' = IF r.requested
                            THEN Append(requests, [kind |-> "synthesis", chunk |-> 0,
                                                   reviews |-> chunk_reviews,
                                                   answer |-> answer])
                            ELSE requests
             /\ final_report' = r.result
             /\ outcome' = IF r.raised THEN "SYNTH_FAILED" ELSE outcome
    /\ pc' = "synth_out"
    /\ UNCHANGED <<env, call, pr_number, raw, fetch_failed, files, chunks, tasks,
                   chunk_reviews, valid_reviews, comments, attempts, log>>

SpecSynth == (SynthInit \/ RunInit) /\ [][SynthCall \/ Next]_vars

-----------------------------------------------------------------------------
(* Vocabulary of the properties.                                           *)

Range(seq) == {seq[i] : i \in 1..Len(seq)}

RECURSIVE Flatten(_)
Flatten(seqs) == IF seqs = <<>> THEN <<>> ELSE Head(seqs) \o Flatten(Tail(seqs))

RECURSIVE SumTokens(_)
SumTokens(chunk) ==
    IF chunk = <<>> THEN 0 ELSE Head(chunk).tokens + SumTokens(Tail(chunk))

Count(seq, x) == Cardinality({i \in 1..Len(seq) : seq[i] = x})

\* sub is obtained from seq by deleting elements.
RECURSIVE IsSubsequence(_, _)
IsSubsequence(sub, seq) ==
    IF sub = <<>> THEN TRUE
    ELSE IF seq = <<>> THEN FALSE
    ELSE IF Head(sub) = Head(seq) THEN IsSubsequence(Tail(sub), Tail(seq))
    ELSE IsSubsequence(sub, Tail(seq))

\* A record with every field present.
WellFormed(r) == ~r.null /\ r.keys = AllKeys /\ r.filename # <<>>

\* The size function is defined on every record that has a file name.
Measurable(fs) == \A i \in 1..Len(fs) : HasFilename(fs[i]) => "patch" \in fs[i].keys

\* The units of the input that pass the minimum-size filter.
IsEligibleUnit(r) == WellFormed(r) /\ r.tokens > MIN_FILE_TOKENS

-----------------------------------------------------------------------------
(* Properties of chunk_files (under SpecChunk).                            *)

\* C2: every chunk in the list returned by chunk_files is non-empty.
C2_NoEmptyChunk ==
    pc = "chunk_out" => \A i \in 1..Len(chunks) : chunks[i] # <<>>

\* C3: every output chunk either has total size <= MAX_CHUNK_TOKENS or
\* consists of exactly one unit whose own size exceeds MAX_CHUNK_TOKENS; a
\* unit larger than MAX_CHUNK_TOKENS is alone in its chunk, and (in a list
\* whose records can all be measured) it is in exactly as many chunks as it
\* occurs in the input.
C3_SizeBound ==
    pc = "chunk_out" =>
      /\ \A i \in 1..Len(chunks) :
           \/ SumTokens(chunks[i]) <= MAX_CHUNK_TOKENS
           \/ Len(chunks[i]) = 1 /\ chunks[i][1].tokens > MAX_CHUNK_TOKENS
      /\ \A i \in 1..Len(chunks) :
           (\E j \in 1..Len(chunks[i]) : chunks[i][j].tokens > MAX_CHUNK_TOKENS)
             => Len(chunks[i]) = 1
      /\ Measurable(files) =>
           \A k \in 1..Len(files) :
             (WellFormed(files[k]) /\ files[k].tokens > MAX_CHUNK_TOKENS) =>
               Cardinality({i \in 1..Len(chunks) : chunks[i] = <<files[k]>>})
                 = Count(files, files[k])

\* An oversize unit was packed next to other eligible units.
C3_Witness ==
    /\ pc = "chunk_out"
    /\ Len(chunks) >= 3
    /\ \E i \in 1..Len(chunks) :
         Len(chunks[i]) = 1 /\ chunks[i][1].tokens > MAX_CHUNK_TOKENS
    /\ \E i \in 1..Len(chunks) :
         chunks[i] # <<>> /\ SumTokens(chunks[i]) <= MAX_CHUNK_TOKENS

\* C4: chunk_files partitions the eligible units: the concatenation of the
\* output chunks holds exactly the input units of size > MIN_FILE_TOKENS,
\* each as often as in the input, and no unit of size <= MIN_FILE_TOKENS (for
\* every input list whose records can all be measured).
C4_Partition ==
    (pc = "chunk_out" /\ Measurable(files)) =>
      LET out == Flatten(chunks)
      IN  /\ \A r \in Range(files) :
               IsEligibleUnit(r) => Count(out, r) = Count(files, r)
          /\ \A r \in Range(out) :
               /\ IsEligibleUnit(r)
               /\ r.tokens > MIN_FILE_TOKENS
               /\ Count(out, r) = Count(files, r)
          /\ Len(out) = Len(SelectSeq(files, IsEligibleUnit))

\* Eligible units were split over two chunks and a small unit was filtered.
C4_Witness ==
    /\ pc = "chunk_out"
    /\ Measurable(files)
    /\ Len(chunks) = 2
    /\ Len(Flatten(chunks)) = 2
    /\ \E k \in 1..Len(files) :
         WellFormed(files[k]) /\ files[k].tokens <= MIN_FILE_TOKENS

\* The directory keys of the file names of the model.
Directories == {DirName(f) : f \in ChunkFilenames}

\* The elements of seq whose file is in directory d, in the order of seq.
InDirectory(seq, d) == SelectSeq(seq, LAMBDA r : DirName(r.filename) = d)

\* C20: the concatenation of the chunks is the stable sort of the eligible
\* units by directory: the directory keys never decrease along it, and the
\* eligible units of one directory are in their order of the input.
C20_StableSort ==
    (pc = "chunk_out" /\ Measurable(files)) =>
      LET out == Flatten(chunks)
          eligible == SelectSeq(files, IsEligibleUnit)
      IN  /\ \A i, j \in 1..Len(out) :
               i < j => ~StrLess(DirName(out[j].filename), DirName(out[i].filename))
          /\ \A d \in Directories : InDirectory(out, d) = InDirectory(eligible, d)

\* The sort moved a unit forward over a unit of a later directory, and two
\* different units of one directory are in the output.
C20_Witness ==
    /\ pc = "chunk_out"
    /\ Measurable(files)
    /\ Flatten(chunks) # SelectSeq(files, IsEligibleUnit)
    /\ \E d \in Directories :
         LET same == InDirectory(Flatten(chunks), d)
         IN  Len(same) = 2 /\ same[1] # same[2]

\* C22: a chunk is closed only when the next unit does not fit: for two
\* consecutive chunks, the total of the earlier one plus the size of the first
\* unit of the later one is strictly greater than MAX_CHUNK_TOKENS (a total
\* equal to MAX_CHUNK_TOKENS stays in one chunk).
C22_ClosedOnlyWhenForced ==
    (pc = "chunk_out" /\ Measurable(files)) =>
      \A i \in 1..(Len(chunks) - 1) :
        /\ chunks[i + 1] # <<>>
        /\ SumTokens(chunks[i]) + chunks[i + 1][1].tokens > MAX_CHUNK_TOKENS

\* Two units fill a chunk exactly to MAX_CHUNK_TOKENS and a third unit opens
\* the next chunk.
C22_Witness ==
    /\ pc = "chunk_out"
    /\ Measurable(files)
    /\ Len(chunks) = 2
    /\ Len(chunks[1]) = 2
    /\ SumTokens(chunks[1]) = MAX_CHUNK_TOKENS
    /\ chunks[2] # <<>>

\* C5: a malformed record (null, no filename, no patch) is skipped alone:
\* the eligible well-formed records of the same list are in the output.
C5_FailSoftPerRecord ==
    pc = "chunk_out" =>
      \A r \in Range(files) : IsEligibleUnit(r) => r \in Range(Flatten(chunks))

-----------------------------------------------------------------------------
(* Properties of the record filter of get_pr_diff (under SpecNormalize).   *)

\* A record the filter itself keeps when it is in a list without defects.
Reviewable(r) == WellFormed(r) /\ RecordKept(r)

\* The defects of a raw record: null, no path field, no patch field.
Defective(r) == r.null \/ "filename" \notin r.keys \/ "patch" \notin r.keys

\* C6: a record that is null or lacks a path or patch field is dropped
\* alone: every well-formed, reviewable record of the list is returned.
C6_LocalRecovery ==
    (pc = "filter_out" /\ \A r \in Range(raw) : WellFormed(r) \/ Defective(r)) =>
      \A r \in Range(raw) : Reviewable(r) => CopyRecord(r) \in Range(files)

\* C7: the returned list is an order-preserving subsequence of the input,
\* no returned unit has null or empty patch text, and no returned unit's
\* path ends in an extension recognised by is_binary_file.
C7_NormalizerOutput ==
    pc = "filter_out" =>
      /\ IsSubsequence(files, raw)
      /\ \A i \in 1..Len(files) :
           /\ Truthy(files[i].patch)
           /\ ~is_binary_file(files[i].filename)

-----------------------------------------------------------------------------
(* Properties of a run of main (under Spec).                               *)

\* The chunks whose analysis request raised.
FailedChunks == {i \in 1..Len(tasks) : tasks[i].state = "raised"}

SynthesisRequests == SelectSeq(requests, LAMBDA r : r.kind = "synthesis")
AnalysisRequests == SelectSeq(requests, LAMBDA r : r.kind = "analysis")

SynthesisRaised ==
    \E k \in 1..Len(requests) :
      requests[k].kind = "synthesis" /\ requests[k].answer = "raise"

\* C1: with N >= 2 chunks of which exactly one's request fails while every
\* other request returns non-blank text, no failure reaches the caller of the
\* fan-out: fan-in yields N results with exactly the failed chunk's blank,
\* the synthesis request is issued over the other N-1 results and (unless
\* that request fails) a report is handed to the publisher.
C1_Degradation ==
    ( /\ pc = "done"
      /\ Len(tasks) >= 2
      /\ Cardinality(FailedChunks) = 1
      /\ \A i \in (1..Len(tasks)) \ FailedChunks :
           tasks[i].state = "done" /\ tasks[i].result.kind = "text" )
    =>
    ( /\ outcome # "ANALYSIS_RAISED"
      /\ Len(chunk_reviews) = Len(tasks)
      /\ \A i \in 1..Len(tasks) :
           ~IsValidReview(chunk_reviews[i]) <=> i \in FailedChunks
      /\ Len(SynthesisRequests) = 1
      /\ Len(SynthesisRequests[1].reviews) = Len(tasks) - 1
      /\ ~SynthesisRaised => attempts = <<Report(final_report)>> )

\* C8: if every chunk's analysis request fails, the run ends in NO_RESULTS
\* with a warning logged, no synthesis request and nothing published.
C8_AllFail ==
    ( /\ pc = "done"
      /\ tasks # <<>>
      /\ FailedChunks = 1..Len(tasks) )
    =>
    ( /\ outcome = "NO_RESULTS"
      /\ [level |-> "warning", msg |-> "No valid reviews generated"] \in log
      /\ SynthesisRequests = <<>>
      /\ comments = <<>>
      /\ attempts = <<>> )

\* C9: once the synthesis request has raised, the run has ended in
\* SYNTH_FAILED (the exception left main), there is no report, and nothing
\* was handed to the publisher or published, although chunk analyses
\* succeeded.
C9_SynthFailed ==
    SynthesisRaised =>
      /\ pc = "done"
      /\ outcome = "SYNTH_FAILED"
      /\ final_report = NoReport
      /\ attempts = <<>>
      /\ comments = <<>>
      /\ valid_reviews # <<>>

\* The synthesis request raised after two chunk analyses returned text.
C9_Witness ==
    /\ SynthesisRaised
    /\ outcome = "SYNTH_FAILED"
    /\ Len(valid_reviews) = 2

\* The three outcomes of a finished run.  A failure is logged by main or, for
\* an exception that leaves main, reported by the interpreter's traceback.
ReportOutcome == attempts = <<Report(final_report)>>
NoticeOutcome == attempts = <<Notice>>
FailureOutcome ==
    /\ attempts = <<>>
    /\ \/ log # {}
       \/ outcome \in {"ANALYSIS_RAISED", "SYNTH_FAILED", "EVENT_RAISED"}

ExactlyOneOutcome ==
    /\ ReportOutcome \/ NoticeOutcome \/ FailureOutcome
    /\ ~(ReportOutcome /\ NoticeOutcome)
    /\ ~(ReportOutcome /\ FailureOutcome)
    /\ ~(NoticeOutcome /\ FailureOutcome)

\* C10 as stated: a finished run has exactly one of the three outcomes
\* (report handed to the publisher, notice handed to the publisher, logged
\* failure without publication attempt), at most one comment is published,
\* and a run in which the fetch, a chunk request or the synthesis request
\* failed makes no publication attempt.
C10_AsStated ==
    /\ Len(comments) <= 1
    /\ pc = "done" => ExactlyOneOutcome
    /\ (fetch_failed \/ FailedChunks # {} \/ SynthesisRaised) => attempts = <<>>

\* C10 amended: as above, but only a failed chunk request or synthesis
\* request excludes a publication attempt; a run whose fetch failed goes on
\* like a run with an empty change-set and hands the notice to the publisher.
C10_Outcomes ==
    /\ Len(comments) <= 1
    /\ pc = "done" => ExactlyOneOutcome
    /\ (FailedChunks # {} \/ SynthesisRaised) => attempts = <<>>
    /\ fetch_failed =>
         /\ pc \in {"publish_notice", "done"}
         /\ pc = "done" => NoticeOutcome
         /\ requests = <<>>

\* The fetch failed and the notice was published.
C10_Witness ==
    /\ pc = "done"
    /\ fetch_failed
    /\ raw = <<>>
    /\ comments = <<Notice>>

\* main has called get_pr_diff and has its result.
Fetched == pc \in {"publish_notice", "chunk", "gather", "synthesize",
                   "publish_report"}
           \/ (pc = "done" /\ outcome \notin {"ENV_MISSING", "NO_PR_NUMBER",
                                              "EVENT_RAISED"})

\* C11: when the normalized unit list is empty, the run goes to NO_UNITS: the
\* notice is the only thing handed to the publisher and published, the
\* chunker is never run and no request is issued to the model provider.
C11_NoUnits ==
    (Fetched /\ files = <<>>) =>
      /\ pc \in {"publish_notice", "done"}
      /\ chunks = <<>> /\ tasks = <<>>
      /\ ~(\E m \in log : m.msg = "No valid chunks created from files")
      /\ requests = <<>>
      /\ pc = "done" =>
           /\ attempts = <<Notice>>
           /\ comments \in {<<>>, <<Notice>>}
           /\ outcome \in {"NO_UNITS", "PUBLISH_RAISED"}
           /\ comments = <<Notice>> <=> outcome = "NO_UNITS"

\* Every record of a fetched list was dropped, and the notice was published.
C11_Witness ==
    /\ pc = "done"
    /\ outcome = "NO_UNITS"
    /\ ~fetch_failed
    /\ raw # <<>>
    /\ files = <<>>
    /\ comments = <<Notice>>

\* Every request of the run was answered with non-blank text.
AllAnsweredText ==
    /\ \A k \in 1..Len(requests) : requests[k].answer = "text"
    /\ \A i \in 1..Len(tasks) : tasks[i].state = "done"

\* C12: with k >= 1 chunks and every request answered with non-blank text, the
\* run issues exactly k analysis requests, then exactly one synthesis request,
\* and hands exactly one final report to the publisher; 3 units of which
\* exactly one is larger than MIN_FILE_TOKENS give exactly one chunk, one
\* analysis request and a synthesis over that single result.
C12_RequestCounts ==
    /\ (pc = "done" /\ tasks # <<>> /\ AllAnsweredText) =>
         /\ Len(AnalysisRequests) = Len(chunks)
         /\ \A i \in 1..Len(chunks) : AnalysisRequests[i].chunk = i
         /\ Len(SynthesisRequests) = 1
         /\ requests[Len(requests)].kind = "synthesis"
         /\ attempts = <<Report(final_report)>>
    /\ ( /\ tasks # <<>>
         /\ Len(files) = 3
         /\ Cardinality({k \in 1..3 : files[k].tokens > MIN_FILE_TOKENS}) = 1 ) =>
         /\ Len(chunks) = 1
         /\ (pc = "done" /\ AllAnsweredText) =>
              /\ Len(AnalysisRequests) = 1
              /\ Len(SynthesisRequests) = 1
              /\ Len(SynthesisRequests[1].reviews) = 1

\* C13: the per-chunk requests are independent: while the request of one
\* chunk is in flight (slow or hung), the task of a sibling chunk that has not
\* started yet can start, so that several requests are in flight at once; no
\* request waits for another chunk's response.
C13_Independent ==
    \A i, j \in 1..Len(tasks) :
      (pc = "gather" /\ tasks[i].state = "in_flight" /\ tasks[j].state = "pending")
        => ENABLED ProcessChunk(j)

\* C14: fan-in restores input order: the result at index i of the collected
\* list is the result of chunk i, and the non-blank results reach the
\* synthesis request in chunk order.
C14_FanInOrder ==
    /\ chunk_reviews # <<>> => Len(chunk_reviews) = Len(chunks)
    /\ \A i \in 1..Len(chunk_reviews) :
         /\ chunk_reviews[i].chunk = i
         /\ chunk_reviews[i] = tasks[i].result
    /\ \A a, b \in 1..Len(valid_reviews) :
         a < b => valid_reviews[a].chunk < valid_reviews[b].chunk
    /\ \A i \in 1..Len(chunk_reviews) :
         chunk_reviews[i].kind = "text" => chunk_reviews[i] \in Range(valid_reviews)
    /\ \A k \in 1..Len(requests) :
         requests[k].kind = "synthesis" =>
           /\ requests[k].reviews = valid_reviews
           /\ \A m \in 1..(k - 1) : requests[m].kind = "analysis"

\* Three results were collected, the middle one blank, and the two others
\* went to the synthesis request.
C14_Witness ==
    /\ Len(chunk_reviews) = 3
    /\ chunk_reviews[2].kind = "blank"
    /\ Len(SynthesisRequests) = 1
    /\ Len(SynthesisRequests[1].reviews) = 2


\* main is past the fan-out.
FanOutOver ==
    tasks # <<>> /\ \A i \in 1..Len(tasks) : tasks[i].state \in {"done", "raised"}

RequestedChunks == {requests[k].chunk : k \in {m \in 1..Len(requests) :
                                                 requests[m].kind = "analysis"}}

\* C16: a chunk whose rendered text is blank (a chunk without files: every
\* file contributes its header line) is never submitted: its task returns the
\* absence marker without a request, and the other chunks are still analysed.
C16_BlankChunkSkipped ==
    /\ \A i \in 1..Len(tasks) :
         chunks[i] = <<>> =>
           /\ i \notin RequestedChunks
           /\ tasks[i].state \in {"pending", "done"}
           /\ tasks[i].state = "done" =>
                (tasks[i].result.kind = "empty" /\ ~IsValidReview(tasks[i].result))
    /\ FanOutOver =>
         \A j \in 1..Len(tasks) : chunks[j] # <<>> => j \in RequestedChunks

\* A run with a blank chunk and two analysed chunks has finished.
C16_Witness ==
    /\ pc = "done"
    /\ Len(tasks) = 3
    /\ tasks[1].result.kind = "empty"
    /\ RequestedChunks = {2, 3}
    /\ tasks[2].result.kind = "text"

-----------------------------------------------------------------------------
(* Properties of get_pr_diff as a whole (under SpecFetch).                 *)

\* An argument is missing, or the hosting service fails.
FetchCannotSucceed ==
    \/ call.github_token = "None"
    \/ call.repo_name = "None"
    \/ pr_number = "None"
    \/ call.service \in {"auth_failed", "repo_not_found", "pr_not_found",
                         "network_error"}

\* C17: get_pr_diff never raises; with a missing token, repository name or PR
\* number, and on every failure of the hosting service, it returns the empty
\* list.
C17_NeverRaises ==
    pc = "fetch_out" =>
      /\ outcome # "FETCH_RAISED"
      /\ FetchCannotSucceed => files = <<>>

\* The call returned after a network error on an otherwise valid request.
C17_Witness ==
    /\ pc = "fetch_out"
    /\ call.github_token = "token" /\ call.repo_name = "owner/repo"
    /\ pr_number = "7"
    /\ call.service = "network_error"
    /\ raw # <<>>
    /\ files = <<>>

-----------------------------------------------------------------------------
(* Properties of chunk_files as a whole (under SpecChunkAny).              *)

\* C18: chunk_files never raises and returns a list: the empty list for None
\* and for the empty list, and for every other input (defective records, a
\* tokenizer that raises) a list of chunks made of records of the input.
C18_NeverRaises ==
    pc = "chunk_out" =>
      /\ outcome # "CHUNK_RAISED"
      /\ (call.is_none \/ files = <<>>) => chunks = <<>>
      /\ \A i \in 1..Len(chunks) : Range(chunks[i]) \subseteq Range(files)

\* The call returned although the tokenizer raised on a well-formed record.
C18_Witness ==
    /\ pc = "chunk_out"
    /\ ~call.is_none
    /\ call.tokenizer = "raises"
    /\ \E i \in 1..Len(files) : WellFormed(files[i])
    /\ chunks = <<>>
    /\ outcome = "none"

-----------------------------------------------------------------------------
(* Properties of the PR-number resolution of main (under Spec).            *)

\* main has read GITHUB_REF.
Resolved == pc \notin {"start", "resolve_pr"} /\ env # NoEnv

PullRefs == {<<"refs", "pull", "7", "merge">>, <<"refs", "pull", "7", "head">>}

\* Neither route gives a PR number: the ref holds no number and the event
\* payload is absent, unreadable or without pull_request.number.
Undetermined ==
    /\ env.ref \notin PullRefs
    /\ env.event # "with_pr"

\* C19: a ref refs/pull/N/merge or refs/pull/N/head gives N; a ref that names
\* no pull request gives pull_request.number of the event payload; and when
\* neither route gives a number the run ends before any change-set fetch,
\* model-provider request or publication attempt.
C19_Resolution ==
    Resolved =>
      /\ env.ref \in PullRefs => pr_number = "7"
      /\ (~HasPull(env.ref) /\ env.event = "with_pr") => pr_number = "7"
      /\ Undetermined =>
           /\ pc = "done"
           /\ ~Fetched
           /\ requests = <<>>
           /\ attempts = <<>>

-----------------------------------------------------------------------------
(* The order of the steps of a run (under Spec).                           *)

\* The position of a step in the text of main.
Rank(p) ==
    CASE p = "start"          -> 0
      [] p = "resolve_pr"     -> 1
      [] p = "fetch"          -> 2
      [] p = "publish_notice" -> 3
      [] p = "chunk"          -> 3
      [] p = "gather"         -> 4
      [] p = "synthesize"     -> 5
      [] p = "publish_report" -> 6
      [] p = "done"           -> 7

TaskRank(state) ==
    CASE state = "pending"   -> 0
      [] state = "in_flight" -> 1
      [] state = "done"      -> 2
      [] state = "raised"    -> 2

ReportAttempts == SelectSeq(attempts, LAMBDA a : a.kind = "report")

\* Every analysis has returned its result or the absence marker.
AllAnalysesCompleted ==
    /\ tasks # <<>>
    /\ \A i \in 1..Len(tasks) : tasks[i].state = "done"
    /\ \A k \in 1..Len(requests) :
         requests[k].kind = "analysis" => requests[k].answer \notin {"pending", "raise"}

\* The barrier and the order of the reduce and publish steps.
BarrierHolds ==
    /\ Len(SynthesisRequests) <= 1
    /\ SynthesisRequests # <<>> =>
         /\ AllAnalysesCompleted
         /\ requests[Len(requests)].kind = "synthesis"
    /\ pc \in {"synthesize", "publish_report"} => AllAnalysesCompleted
    /\ ReportAttempts # <<>> =>
         /\ Len(ReportAttempts) = 1
         /\ Len(SynthesisRequests) = 1
         /\ SynthesisRequests[1].answer # "raise"
         /\ ReportAttempts[1].report = final_report

\* A step goes forward in the text of main, never back: the position
\* advances, or a task of the fan-out advances; what was requested and what
\* was handed to the publisher stays.
StepForward ==
    /\ pc # "done"
    /\ Rank(pc') >= Rank(pc)
    /\ pc' = pc =>
         /\ pc = "gather"
         /\ Len(tasks') = Len(tasks)
         /\ \A i \in 1..Len(tasks) :
              TaskRank(tasks'[i].state) >= TaskRank(tasks[i].state)
         /\ \E i \in 1..Len(tasks) :
              TaskRank(tasks'[i].state) > TaskRank(tasks[i].state)
    /\ Len(requests') >= Len(requests)
    /\ \A k \in 1..Len(requests) : requests'[k].kind = requests[k].kind
    /\ SubSeq(attempts', 1, Len(attempts)) = attempts

\* C21: the synthesis request is issued only after every per-chunk analysis
\* has completed, at most one synthesis request is issued per run, the report
\* is handed to the publisher only after the synthesis request has returned,
\* and no step of the run is entered twice.
C21_Barrier == [](BarrierHolds) /\ [][StepForward]_vars

\* A run over two chunks has published its report.
C21_Witness ==
    /\ pc = "done"
    /\ outcome = "REPORT_READY"
    /\ Len(tasks) = 2
    /\ Len(AnalysisRequests) = 2
    /\ Len(SynthesisRequests) = 1
    /\ Len(ReportAttempts) = 1

-----------------------------------------------------------------------------
(* Properties of synthesize_reviews and its caller (under SpecSynth).      *)

NoTextIn(reviews) == \A i \in 1..Len(reviews) : reviews[i].kind # "text"

====
